---- MODULE Spec2Model ----
(***************************************************************************)
(* lsfd(1), misc-utils/lsfd.c: the collector threads that claim processes *)
(* from the /proc list (run_collectors, fill_procs), the enrichment of    *)
(* one process (fill_proc and the collect_* helpers) and the tail of main *)
(* (convert, emit, delete).                                                *)
(*                                                                         *)
(* A list position is a number: procs is the list head itself (the        *)
(* sentinel of the circular list), 1..nprocs are the struct proc nodes in *)
(* list order, NULL is the unset cursor.                                   *)
(***************************************************************************)
EXTENDS Integers, Sequences, FiniteSets, TLC

\* ---------------------------------------------------------------- bounds

\* Largest pool size explored (NUM_COLLECTORS is 1 in the source; the pool
\* size is chosen in Init from 1..MaxCollectors).
MaxCollectors == 2
\* Largest number of numeric entries collect_procs finds in /proc.
MaxProcs == 2
\* How many descriptor numbers of FdPool a process may have open.
MaxFds == 2
\* How many of the thirteen fixed names (cwd .. uts) may fail to resolve
\* one by one in a single enrichment (whole directories fail besides).
MaxMissing == 1

\* ------------------------------------------------------------- constants

NULL == -1
procs == 0
MainThread == 0
EXIT_SUCCESS == 0
EXIT_FAILURE == 1

S_IFMT == 61440
S_IFREG == 32768
S_IFCHR == 8192
S_IFBLK == 24576
S_IFDIR == 16384
S_IFIFO == 4096
S_IFSOCK == 49152

\* enum association (lsfd.h): positive, so that the stored sentinel,
\* the value times -1, is negative.
ASSOC_CWD == 1
ASSOC_EXE == 2
ASSOC_ROOT == 3
ASSOC_NS_CGROUP == 4
ASSOC_NS_IPC == 5
ASSOC_NS_MNT == 6
ASSOC_NS_NET == 7
ASSOC_NS_PID == 8
ASSOC_NS_PID4C == 9
ASSOC_NS_TIME == 10
ASSOC_NS_TIME4C == 11
ASSOC_NS_USER == 12
ASSOC_NS_UTS == 13

classical_assocs == <<ASSOC_CWD, ASSOC_EXE, ASSOC_ROOT>>

classical_assoc_names ==
    (ASSOC_CWD :> "cwd") @@ (ASSOC_EXE :> "exe") @@ (ASSOC_ROOT :> "root")

namespace_assocs ==
    <<ASSOC_NS_CGROUP, ASSOC_NS_IPC, ASSOC_NS_MNT, ASSOC_NS_NET, ASSOC_NS_PID,
      ASSOC_NS_PID4C, ASSOC_NS_TIME, ASSOC_NS_TIME4C, ASSOC_NS_USER,
      ASSOC_NS_UTS>>

namespace_assoc_names ==
    (ASSOC_NS_CGROUP :> "cgroup") @@ (ASSOC_NS_IPC :> "ipc")
    @@ (ASSOC_NS_MNT :> "mnt") @@ (ASSOC_NS_NET :> "net")
    @@ (ASSOC_NS_PID :> "pid") @@ (ASSOC_NS_PID4C :> "pid_for_children")
    @@ (ASSOC_NS_TIME :> "time") @@ (ASSOC_NS_TIME4C :> "time_for_children")
    @@ (ASSOC_NS_USER :> "user") @@ (ASSOC_NS_UTS :> "uts")

\* --------------------------------------------------- /proc as the code sees it

\* What fstatat() and readlinkat() return for one name of a directory:
\* fstatat is 0 or -1, st_mode is the mode fstatat stored, readlinkat is the
\* length of the link target or -1.
Resolved(mode) == [fstatat |-> 0, st_mode |-> mode, readlinkat |-> 1]
NoStat == [fstatat |-> -1, st_mode |-> 0, readlinkat |-> -1]
NoLink(mode) == [fstatat |-> 0, st_mode |-> mode, readlinkat |-> -1]

\* A directory stream as opendirf() and xreaddir() give it: open is FALSE
\* when opendirf() returned NULL; list is the d_name of every entry in scan
\* order; ent is what fstatat/readlinkat answer for a name.
ClosedDir == [open |-> FALSE, list |-> <<>>, ent |-> <<>>]

\* The decimal name the kernel gives descriptor n in /proc/<pid>/fd, as the
\* sequence of its characters.
Digit(d) == <<"0", "1", "2", "3", "4", "5", "6", "7", "8", "9">>[d + 1]

RECURSIVE FdName(_)
FdName(n) == IF n < 10 THEN <<Digit(n)>>
             ELSE Append(FdName(n \div 10), Digit(n % 10))

\* ------------------------------------------------------------ pure code

\* strtol(nptr, &endptr, 10) on a name without leading blanks: an optional
\* sign, then the longest run of digits. end is the index of the first
\* character not converted (1 when nothing was converted: endptr == nptr).
DigitVal(c) == CHOOSE d \in 0..9 : Digit(d) = c
IsDigit(c) == \E d \in 0..9 : Digit(d) = c

RECURSIVE strtol_digits(_, _, _)
strtol_digits(s, i, acc) ==
    IF i <= Len(s) /\ IsDigit(s[i])
    THEN strtol_digits(s, i + 1, acc * 10 + DigitVal(s[i]))
    ELSE [num |-> acc, end |-> i]

strtol(s) ==
    LET signed == Len(s) >= 1 /\ s[1] \in {"-", "+"}
        first == IF signed THEN 2 ELSE 1
        r == strtol_digits(s, first, 0)
    IN IF r.end = first THEN [num |-> 0, end |-> 1]
       ELSE [num |-> IF signed /\ s[1] = "-" THEN 0 - r.num ELSE r.num,
             end |-> r.end]

\* sb->st_mode & S_IFMT: bits 12..15 of the mode (S_IFMT is 0170000, and
\* S_IFIFO, 0010000, its lowest bit).
IFMT(mode) == (mode % (S_IFMT + S_IFIFO)) - (mode % S_IFIFO)

\* The constructors of lsfd-file.c and friends: a File keeps its
\* association, the stat result and its class.
make_file(sb, name, assoc) ==
    [association |-> assoc, stat |-> sb, class |-> "file"]
make_regular_file(sb, name, assoc) ==
    [association |-> assoc, stat |-> sb, class |-> "regular"]
make_cdev_file(sb, name, assoc) ==
    [association |-> assoc, stat |-> sb, class |-> "cdev"]
make_bdev_file(sb, name, assoc) ==
    [association |-> assoc, stat |-> sb, class |-> "bdev"]

\* collect_file without the S_IFBLK case.
collect_file_noblk(sb, name, assoc) ==
    IF IFMT(sb.st_mode) = S_IFREG THEN make_regular_file(sb, name, assoc)
    ELSE IF IFMT(sb.st_mode) = S_IFCHR THEN make_cdev_file(sb, name, assoc)
    ELSE make_file(sb, name, assoc)

collect_file(sb, name, assoc) ==
    IF IFMT(sb.st_mode) = S_IFREG THEN make_regular_file(sb, name, assoc)
    ELSE IF IFMT(sb.st_mode) = S_IFCHR THEN make_cdev_file(sb, name, assoc)
    ELSE IF IFMT(sb.st_mode) = S_IFBLK THEN make_bdev_file(sb, name, assoc)
    ELSE make_file(sb, name, assoc)

\* A struct file * is a sequence: <<>> is NULL, <<f>> points to f.
collect_fd_file(dd, d_name) ==
    LET r == strtol(d_name)
    IN IF r.num = 0 /\ r.end = 1 THEN <<>>
       ELSE IF dd[d_name].fstatat < 0 THEN <<>>
       ELSE IF dd[d_name].readlinkat < 0 THEN <<>>
       ELSE <<collect_file([st_mode |-> dd[d_name].st_mode], d_name, r.num)>>

\* enqueue_file with list_add in place of list_add_tail.
enqueue_file_head(files, file) == <<file>> \o files

\* list_add_tail(&file->files, &proc->files)
enqueue_file(files, file) == Append(files, file)

\* while ((dp = xreaddir(dirp))): an entry that does not resolve is skipped.
RECURSIVE collect_fd_files_loop(_, _, _)
collect_fd_files_loop(files, dirp, i) ==
    IF i > Len(dirp.list) THEN files
    ELSE LET file == collect_fd_file(dirp.ent, dirp.list[i])
         IN IF file = <<>>
            THEN collect_fd_files_loop(files, dirp, i + 1)
            ELSE collect_fd_files_loop(enqueue_file(files, file[1]), dirp, i + 1)

\* collect_fd_files that drops the list when the directory cannot be opened.
collect_fd_files_reset(files, dirp) ==
    IF ~dirp.open THEN <<>>
    ELSE collect_fd_files_loop(files, dirp, 1)

collect_fd_files(files, dirp) ==
    IF ~dirp.open THEN files
    ELSE collect_fd_files_loop(files, dirp, 1)

collect_outofbox_file(dd, name, association) ==
    IF dd[name].fstatat < 0 THEN <<>>
    ELSE IF dd[name].readlinkat < 0 THEN <<>>
    ELSE <<collect_file([st_mode |-> dd[name].st_mode], name, association)>>

\* The loop of collect_outofbox_files passing assocs[i] without the * -1.
RECURSIVE collect_outofbox_loop_plain(_, _, _, _, _)
collect_outofbox_loop_plain(files, dd, assocs, assoc_names, i) ==
    IF i > Len(assocs) THEN files
    ELSE LET file == collect_outofbox_file(dd, assoc_names[assocs[i]],
                                           assocs[i])
         IN IF file = <<>>
            THEN collect_outofbox_loop_plain(files, dd, assocs, assoc_names,
                                             i + 1)
            ELSE collect_outofbox_loop_plain(enqueue_file(files, file[1]), dd,
                                             assocs, assoc_names, i + 1)

\* for (i = 0; i < count; i++): a name that does not resolve is skipped.
RECURSIVE collect_outofbox_loop(_, _, _, _, _)
collect_outofbox_loop(files, dd, assocs, assoc_names, i) ==
    IF i > Len(assocs) THEN files
    ELSE LET file == collect_outofbox_file(dd, assoc_names[assocs[i]],
                                           assocs[i] * (-1))
         IN IF file = <<>>
            THEN collect_outofbox_loop(files, dd, assocs, assoc_names, i + 1)
            ELSE collect_outofbox_loop(enqueue_file(files, file[1]), dd,
                                       assocs, assoc_names, i + 1)

collect_outofbox_files(files, dirp, assocs, assoc_names) ==
    IF ~dirp.open THEN files
    ELSE collect_outofbox_loop(files, dirp.ent, assocs, assoc_names, 1)

\* fill_proc on the view v of /proc/<pid> the calls of this enrichment see:
\* v.command is whether proc_get_command_name() returned a name, v.proc,
\* v.ns and v.fd are the three directories. fatal is the err(EXIT_FAILURE)
\* of line 347, which ends the program before anything is collected.
\* fill_proc that goes on without a command name.
fill_proc_lenient(v) ==
    LET f0 == <<>>
        f1 == collect_outofbox_files(f0, v.proc, classical_assocs,
                                     classical_assoc_names)
        f2 == collect_outofbox_files(f1, v.ns, namespace_assocs,
                                     namespace_assoc_names)
    IN [fatal |-> FALSE, files |-> collect_fd_files(f2, v.fd)]

fill_proc(v) ==
    LET f0 == <<>>
        f1 == collect_outofbox_files(f0, v.proc, classical_assocs,
                                     classical_assoc_names)
        f2 == collect_outofbox_files(f1, v.ns, namespace_assocs,
                                     namespace_assoc_names)
    IN IF ~v.command THEN [fatal |-> TRUE, files |-> f0]
       ELSE [fatal |-> FALSE, files |-> collect_fd_files(f2, v.fd)]

\* ------------------------------------------------------ columns and classes

\* enum (lsfd.h), the indices of infos[].
COL_ASSOC == 0
COL_COMMAND == 1
COL_DEVICE == 2
COL_FD == 3
COL_INODE == 4
COL_NAME == 5
COL_PID == 6
COL_TYPE == 7
COL_UID == 8
COL_USER == 9

\* infos[].name, each as the sequence of its characters.
infos ==
    <<<<"A", "S", "S", "O", "C">>,
      <<"C", "O", "M", "M", "A", "N", "D">>,
      <<"D", "E", "V", "I", "C", "E">>,
      <<"F", "D">>,
      <<"I", "N", "O", "D", "E">>,
      <<"N", "A", "M", "E">>,
      <<"P", "I", "D">>,
      <<"T", "Y", "P", "E">>,
      <<"U", "I", "D">>,
      <<"U", "S", "E", "R">>>>

\* ARRAY_SIZE(columns): twice the number of infos[].
ColumnsSize == Len(infos) * 2

\* The terminating byte of a C string.
NUL == "NUL"
CharAt(s, i) == IF i <= Len(s) THEN s[i] ELSE NUL

Upper == <<"A", "B", "C", "D", "E", "F", "G", "H", "I", "J", "K", "L", "M",
           "N", "O", "P", "Q", "R", "S", "T", "U", "V", "W", "X", "Y", "Z">>
Lower == <<"a", "b", "c", "d", "e", "f", "g", "h", "i", "j", "k", "l", "m",
           "n", "o", "p", "q", "r", "s", "t", "u", "v", "w", "x", "y", "z">>
tolower(c) ==
    IF \E i \in 1..Len(Upper) : Upper[i] = c
    THEN Lower[CHOOSE i \in 1..Len(Upper) : Upper[i] = c]
    ELSE c

\* strncasecmp(s1, s2, n) from character i on: 0 when the first n
\* characters agree without regard to case, or both strings end before.
RECURSIVE strncasecmp(_, _, _, _)
strncasecmp(s1, s2, n, i) ==
    IF i > n THEN 0
    ELSE IF tolower(CharAt(s1, i)) # tolower(CharAt(s2, i)) THEN 1
    ELSE IF CharAt(s1, i) = NUL THEN 0
    ELSE strncasecmp(s1, s2, n, i + 1)

\* column_name_to_id: the index of the first infos[] name that matches
\* name over namesz characters and ends there; -1 for an unknown name.
RECURSIVE column_name_to_id_loop(_, _, _)
column_name_to_id_loop(name, namesz, i) ==
    IF i >= Len(infos) THEN -1
    ELSE IF strncasecmp(name, infos[i + 1], namesz, 1) = 0
            /\ CharAt(infos[i + 1], namesz + 1) = NUL
         THEN i
         ELSE column_name_to_id_loop(name, namesz, i + 1)

\* column_name_to_id that matches a prefix of a column name.
column_name_to_id_prefix(name, namesz) ==
    IF \E i \in 0..(Len(infos) - 1) : strncasecmp(name, infos[i + 1], namesz, 1) = 0
    THEN CHOOSE i \in 0..(Len(infos) - 1) :
            strncasecmp(name, infos[i + 1], namesz, 1) = 0
    ELSE -1

column_name_to_id(name, namesz) == column_name_to_id_loop(name, namesz, 0)

\* string_add_to_idarray (lib/strutils.c) on a list without a leading '+':
\* the array is filled from its start with the id of every name of the
\* list; r is the number of ids stored, -1 for a name without an id, -2 when
\* the array is full.
RECURSIVE string_to_idarray(_, _, _, _)
string_to_idarray(list, ary, arysz, i) ==
    IF i > Len(list) THEN [r |-> Len(ary), ary |-> ary]
    ELSE LET id == column_name_to_id(list[i], Len(list[i]))
         IN IF id = -1 THEN [r |-> -1, ary |-> ary]
            ELSE IF Len(ary) >= arysz THEN [r |-> -2, ary |-> ary]
                 ELSE string_to_idarray(list, Append(ary, id), arysz, i + 1)

string_add_to_idarray(list, ary, arysz) ==
    IF list = <<>> \/ Len(ary) > arysz THEN [r |-> -1, ary |-> ary]
    ELSE LET t == string_to_idarray(list, <<>>, arysz, 1)
         IN IF t.r > 0 THEN t ELSE [r |-> t.r, ary |-> ary]

\* The -o arguments of the runs explored, each a list of names; an
\* outarg is <<>> (NULL, no -o given) or <<list>>.
ArgBogus == <<<<"B", "O", "G", "U", "S">>>>
ArgTypeBogus == <<<<"t", "y", "p", "e">>, <<"B", "O", "G", "U", "S">>>>
ArgPrefix == <<<<"T", "Y", "P">>>>
ArgFdType == <<<<"f", "d">>, <<"T", "Y", "P", "E">>>>
OutArgs == {<<>>, <<ArgBogus>>, <<ArgTypeBogus>>, <<ArgPrefix>>, <<ArgFdType>>}

\* The columns main selects when it finds none selected.
DefaultColumns ==
    <<COL_COMMAND, COL_PID, COL_USER, COL_ASSOC, COL_TYPE, COL_DEVICE,
      COL_INODE, COL_NAME>>

\* struct file_class: super is the class to fall back to (NoClass is NULL),
\* has_fill_column and free_content say whether the hook is set, answers
\* is the set of column ids for which the fill_column hook returns true.
\* The generic class has both hooks and answers every column; of the
\* concrete classes one (cdev) has a release hook of its own, the others
\* have none.
NoClass == "NULL"
AllColumns == 0..(Len(infos) - 1)
file_class ==
    [super |-> NoClass, has_fill_column |-> TRUE, answers |-> AllColumns,
     free_content |-> TRUE]
regular_file_class ==
    [super |-> "file", has_fill_column |-> TRUE, answers |-> {COL_TYPE},
     free_content |-> FALSE]
cdev_class ==
    [super |-> "file", has_fill_column |-> TRUE,
     answers |-> {COL_TYPE, COL_DEVICE}, free_content |-> TRUE]
bdev_class ==
    [super |-> "file", has_fill_column |-> TRUE,
     answers |-> {COL_TYPE, COL_DEVICE}, free_content |-> FALSE]
Classes ==
    [file |-> file_class, regular |-> regular_file_class,
     cdev |-> cdev_class, bdev |-> bdev_class]

\* fill_column whose loop goes on after a hook has returned true.
RECURSIVE fill_column_nobreak(_, _, _, _)
fill_column_nobreak(class, column_id, invoked, by) ==
    IF class = NoClass THEN [invoked |-> invoked, by |-> by]
    ELSE IF Classes[class].has_fill_column
         THEN fill_column_nobreak(Classes[class].super, column_id,
                  Append(invoked, class),
                  IF by = NoClass /\ column_id \in Classes[class].answers
                  THEN class ELSE by)
         ELSE fill_column_nobreak(Classes[class].super, column_id, invoked, by)

\* fill_column: invoked is the classes whose fill_column hook was called,
\* in call order; by is the class whose hook returned true, NoClass when
\* the loop ended with class == NULL.
RECURSIVE fill_column(_, _, _, _)
fill_column(class, column_id, invoked, by) ==
    IF class = NoClass THEN [invoked |-> invoked, by |-> by]
    ELSE IF Classes[class].has_fill_column
         THEN IF column_id \in Classes[class].answers
              THEN [invoked |-> Append(invoked, class), by |-> class]
              ELSE fill_column(Classes[class].super, column_id,
                               Append(invoked, class), by)
         ELSE fill_column(Classes[class].super, column_id, invoked, by)

\* convert1: one cell per selected column.
convert1(file, cols) ==
    [i \in 1..Len(cols) |-> fill_column(file.class, cols[i], <<>>, NoClass)]

\* What the cleanup does, as the sequence of its calls: the free_content
\* hook of class c run on File i of process p, free() of that File, free()
\* of the process.
HookCall(p, i, c) == [op |-> "free_content", proc |-> p, file |-> i, class |-> c]
FreeFile(p, i) == [op |-> "free", proc |-> p, file |-> i, class |-> NoClass]
FreeProc(p) == [op |-> "free", proc |-> p, file |-> 0, class |-> NoClass]

\* free_file that runs the hook of the File's own class only.
free_file_concrete(p, i, class) ==
    (IF class # NoClass /\ Classes[class].free_content
     THEN <<HookCall(p, i, class)>> ELSE <<>>)
    \o <<FreeFile(p, i)>>

\* free_file of File i of process p, from class on.
RECURSIVE free_file(_, _, _)
free_file(p, i, class) ==
    IF class = NoClass THEN <<FreeFile(p, i)>>
    ELSE (IF Classes[class].free_content THEN <<HookCall(p, i, class)>>
          ELSE <<>>)
         \o free_file(p, i, Classes[class].super)

\* list_free(&proc->files, struct file, files, free_file), from File i on.
RECURSIVE list_free_files(_, _, _)
list_free_files(p, fs, i) ==
    IF i > Len(fs) THEN <<>>
    ELSE free_file(p, i, fs[i].class) \o list_free_files(p, fs, i + 1)

free_proc(p, fs) == list_free_files(p, fs, 1) \o <<FreeProc(p)>>

\* list_free(procs, struct proc, procs, free_proc), from node p on a list
\* of n nodes.
RECURSIVE list_free_procs(_, _, _)
list_free_procs(fs, p, n) ==
    IF p > n THEN <<>>
    ELSE free_proc(p, fs[p]) \o list_free_procs(fs, p + 1, n)

\* ------------------------------------------------------- views of /proc/<pid>

ClassicalNames == {classical_assoc_names[a] : a \in DOMAIN classical_assoc_names}
NamespaceNames == {namespace_assoc_names[a] : a \in DOMAIN namespace_assoc_names}
FixedNames == ClassicalNames \cup NamespaceNames

\* What stat() through the link says when the name resolves: cwd and root
\* are directories, exe is a regular file, a namespace handle is an nsfs
\* inode (a regular file, mode 0444).
FixedMode(n) ==
    IF n \in {"cwd", "root"} THEN S_IFDIR + 493
    ELSE IF n = "exe" THEN S_IFREG + 493
    ELSE S_IFREG + 292

\* Every way at most MaxMissing of the fixed names fail, all of them by
\* fstatat or all of them by readlinkat.
FixedMaps ==
    {[n \in FixedNames |->
         IF n \in S THEN (IF nostat THEN NoStat ELSE NoLink(FixedMode(n)))
         ELSE Resolved(FixedMode(n))] :
        S \in {X \in SUBSET FixedNames : Cardinality(X) <= MaxMissing},
        nostat \in BOOLEAN}

OpenDir(names, m) ==
    [open |-> TRUE, list |-> <<>>, ent |-> [n \in names |-> m[n]]]

\* Descriptor numbers a process may have open, in ascending order.
FdPool == <<0, 1, 10, 255>>
FdCandidates == {FdPool[i] : i \in 1..MaxFds}

\* Modes of what a descriptor refers to: a regular file (0644) or a
\* character device (0620).
FdModes == {S_IFREG + 420, S_IFCHR + 400}
FdOutcomes(modes) ==
    {NoStat} \cup {NoLink(m) : m \in {S_IFREG + 420}}
    \cup {Resolved(m) : m \in modes}

RECURSIVE Ascending(_)
Ascending(S) ==
    IF S = {} THEN <<>>
    ELSE LET m == CHOOSE x \in S : \A y \in S : x <= y
         IN <<m>> \o Ascending(S \ {m})

\* /proc/<pid>/fd lists the open descriptors by number, ascending; o says
\* what fstatat/readlinkat answer for each (an entry may vanish between
\* readdir and fstatat).
FdDir(S, o) ==
    LET nums == Ascending(S)
    IN [open |-> TRUE,
        list |-> [i \in 1..Len(nums) |-> FdName(nums[i])],
        ent |-> [d \in {FdName(n) : n \in S} |->
                    o[CHOOSE n \in S : FdName(n) = d]]]

FdDirs(cands, modes) ==
    {ClosedDir} \cup
    UNION {{FdDir(S, o) : o \in [S -> FdOutcomes(modes)]} : S \in SUBSET cands}

View(c, p, n, f) == [command |-> c, proc |-> p, ns |-> n, fd |-> f]

\* The process is gone: no command name, no directory opens.
Gone == View(FALSE, ClosedDir, ClosedDir, ClosedDir)
AllResolved == [n \in FixedNames |-> Resolved(FixedMode(n))]
AllDenied == [n \in FixedNames |-> NoLink(FixedMode(n))]
\* The process is there and everything resolves; descriptors 0 and 1 open.
Alive ==
    View(TRUE, OpenDir(ClassicalNames, AllResolved),
         OpenDir(NamespaceNames, AllResolved),
         FdDir({0, 1}, (0 :> Resolved(S_IFCHR + 400))
                       @@ (1 :> Resolved(S_IFREG + 420))))
\* Another user's process: the links cannot be read, fd/ cannot be opened.
Restricted ==
    View(TRUE, OpenDir(ClassicalNames, AllDenied),
         OpenDir(NamespaceNames, AllDenied), ClosedDir)
\* The command name cannot be read although the directories can.
NoCommand == [Alive EXCEPT !.command = FALSE]

\* The views the scheduler model draws from.
SchedViews == {Alive, Gone, NoCommand}

\* The views the enrichment model draws from: a directory that cannot be
\* opened, or at most MaxMissing names that fail one by one, with every
\* listing of /proc/<pid>/fd.
FixedDirs ==
    {<<OpenDir(ClassicalNames, m), OpenDir(NamespaceNames, m)>> :
        m \in FixedMaps}
    \cup {<<ClosedDir, OpenDir(NamespaceNames, AllResolved)>>,
          <<OpenDir(ClassicalNames, AllResolved), ClosedDir>>,
          <<ClosedDir, ClosedDir>>}

FillViews ==
    {Gone, NoCommand, Restricted} \cup
    {View(TRUE, d[1], d[2], f) :
        d \in FixedDirs, f \in FdDirs(FdCandidates, FdModes)}

\* Views in which one descriptor refers to a file of any type: every value
\* of the four file-type bits, with several permission bits.
PermBits == {0, 420, 493, 4095}
TypeModes == {t * S_IFIFO + b : t \in 0..15, b \in PermBits}
TypeViews ==
    {View(TRUE, ClosedDir, ClosedDir, FdDir({0}, (0 :> Resolved(m)))) :
        m \in TypeModes}

\* ------------------------------------------------------------------ state

VARIABLES
    num_collectors,       \* NUM_COLLECTORS of this run
    nprocs,               \* length of the list collect_procs built
    current_proc,         \* the shared cursor
    pc_main,              \* where main is
    created,              \* threads created so far (run_collectors, first loop)
    joined,               \* threads joined so far (run_collectors, second loop)
    pc,                   \* where each collector thread is
    target_proc,          \* fill_procs' local target_proc, per thread
    procs_ready_lock,     \* the threads holding the mutex (none or one)
    procs_consumer_lock,  \* the threads holding the mutex (none or one)
    files,                \* proc->files of every list node
    view,                 \* what /proc/<pid> answered when the node was enriched
    claims,               \* how often a claim step returned the node
    fills,                \* how often fill_proc ran on the node
    waited,               \* the thread entered pthread_cond_wait
    rows,                 \* the lines of the output table (convert)
    emitted,              \* scols_print_table has run
    term,                 \* how the program ended, if it has
    outarg,               \* the argument of -o on the command line
    columns,              \* columns[0 .. ncolumns-1]
    freed                 \* the calls the cleanup has made, in order

vars == <<num_collectors, nprocs, current_proc, pc_main, created, joined, pc,
          target_proc, procs_ready_lock, procs_consumer_lock, files, view,
          claims, fills, waited, rows, emitted, term, outarg, columns, freed>>

Collectors == 1..MaxCollectors
Nodes == 1..MaxProcs

Running == term.status = "running"

\* list_head.next of a position of the circular list.
next(pos) == IF pos = nprocs THEN procs ELSE pos + 1

\* exit() from thread `by`: the whole program ends.
exit(code, cause, by) ==
    term' = [status |-> "exited", code |-> code, cause |-> cause, by |-> by]

\* SIGSEGV raised in thread `by`.
segv(by) ==
    term' = [status |-> "killed", code |-> 128 + 11, cause |-> "SIGSEGV",
             by |-> by]

Init ==
    /\ num_collectors \in 1..MaxCollectors
    /\ nprocs = 0
    /\ current_proc = NULL
    /\ pc_main = "setup"
    /\ outarg \in OutArgs
    /\ columns = <<>>
    /\ freed = <<>>
    /\ created = 0
    /\ joined = 0
    /\ pc = [w \in Collectors |-> "none"]
    /\ target_proc = [w \in Collectors |-> NULL]
    /\ procs_ready_lock = {}
    /\ procs_consumer_lock = {}
    /\ files = [p \in Nodes |-> <<>>]
    /\ view = [p \in Nodes |-> Gone]
    /\ claims = [p \in Nodes |-> 0]
    /\ fills = [p \in Nodes |-> 0]
    /\ waited = [w \in Collectors |-> FALSE]
    /\ rows = <<>>
    /\ emitted = FALSE
    /\ term = [status |-> "running", code |-> EXIT_SUCCESS, cause |-> "",
               by |-> MainThread]

\* ------------------------------------------------------------------- main

\* main up to INIT_LIST_HEAD: the default columns, then the -o list; a name
\* without a column id makes main return EXIT_FAILURE.
main_setup ==
    /\ Running /\ pc_main = "setup"
    /\ LET defaults == IF Len(columns) = 0 THEN DefaultColumns ELSE columns
           a == string_add_to_idarray(outarg[1], defaults, ColumnsSize)
       IN IF outarg # <<>> /\ a.r < 0
          THEN /\ columns' = a.ary
               /\ exit(EXIT_FAILURE, "column", MainThread)
               /\ UNCHANGED pc_main
          ELSE /\ columns' = IF outarg # <<>> THEN a.ary ELSE defaults
               /\ pc_main' = "collect"
               /\ UNCHANGED term
    /\ UNCHANGED <<num_collectors, nprocs, current_proc, created, joined, pc,
                   target_proc, procs_ready_lock, procs_consumer_lock, files,
                   view, claims, fills, waited, rows, emitted, outarg, freed>>

\* collect(): opendir("/proc") and collect_procs.
collect ==
    /\ Running /\ pc_main = "collect"
    /\ \/ /\ exit(EXIT_FAILURE, "opendir", MainThread)
          /\ UNCHANGED <<nprocs, pc_main>>
       \/ /\ \E n \in 0..MaxProcs : nprocs' = n
          /\ pc_main' = "create"
          /\ UNCHANGED term
    /\ UNCHANGED <<num_collectors, current_proc, created, joined, pc,
                   target_proc, procs_ready_lock, procs_consumer_lock, files,
                   view, claims, fills, waited, rows, emitted,
                   outarg, columns, freed>>

\* run_collectors, one turn of the pthread_create loop.
run_collectors_create ==
    /\ Running /\ pc_main = "create"
    /\ \/ /\ exit(EXIT_FAILURE, "create", MainThread)
          /\ UNCHANGED <<created, pc, pc_main>>
       \/ /\ created' = created + 1
          /\ pc' = [pc EXCEPT ![created + 1] = "lock_ready"]
          /\ pc_main' = IF created + 1 < num_collectors THEN "create"
                        ELSE "lock_ready"
          /\ UNCHANGED term
    /\ UNCHANGED <<num_collectors, nprocs, current_proc, joined, target_proc,
                   procs_ready_lock, procs_consumer_lock, files, view, claims,
                   fills, waited, rows, emitted,
                   outarg, columns, freed>>

run_collectors_lock ==
    /\ Running /\ pc_main = "lock_ready"
    /\ procs_ready_lock = {}
    /\ procs_ready_lock' = {MainThread}
    /\ pc_main' = "publish"
    /\ UNCHANGED <<num_collectors, nprocs, current_proc, created, joined, pc,
                   target_proc, procs_consumer_lock, files, view, claims,
                   fills, waited, rows, emitted, term,
                   outarg, columns, freed>>

\* current_proc = procs->next
run_collectors_publish ==
    /\ Running /\ pc_main = "publish"
    /\ current_proc' = next(procs)
    /\ pc_main' = "unlock_ready"
    /\ UNCHANGED <<num_collectors, nprocs, created, joined, pc, target_proc,
                   procs_ready_lock, procs_consumer_lock, files, view, claims,
                   fills, waited, rows, emitted, term,
                   outarg, columns, freed>>

run_collectors_unlock ==
    /\ Running /\ pc_main = "unlock_ready"
    /\ procs_ready_lock' = procs_ready_lock \ {MainThread}
    /\ pc_main' = "broadcast"
    /\ UNCHANGED <<num_collectors, nprocs, current_proc, created, joined, pc,
                   target_proc, procs_consumer_lock, files, view, claims,
                   fills, waited, rows, emitted, term,
                   outarg, columns, freed>>

\* pthread_cond_broadcast: every thread blocked on procs_ready is woken and
\* has to take the mutex again.
run_collectors_broadcast ==
    /\ Running /\ pc_main = "broadcast"
    /\ pc' = [w \in Collectors |-> IF pc[w] = "wait" THEN "woken" ELSE pc[w]]
    /\ pc_main' = "join"
    /\ UNCHANGED <<num_collectors, nprocs, current_proc, created, joined,
                   target_proc, procs_ready_lock, procs_consumer_lock, files,
                   view, claims, fills, waited, rows, emitted, term,
                   outarg, columns, freed>>

\* The pthread_join loop that gives a thread up while it is in fill_proc.
run_collectors_join_timeout ==
    /\ Running /\ pc_main = "join"
    /\ pc[joined + 1] \in {"returned", "fill"}
    /\ joined' = joined + 1
    /\ pc_main' = IF joined + 1 < num_collectors THEN "join" ELSE "convert"
    /\ UNCHANGED <<num_collectors, nprocs, current_proc, created, pc,
                   target_proc, procs_ready_lock, procs_consumer_lock, files,
                   view, claims, fills, waited, rows, emitted, term,
                   outarg, columns, freed>>

\* The pthread_join loop that does not wait for the thread to return.
run_collectors_join_nowait ==
    /\ Running /\ pc_main = "join"
    /\ joined' = joined + 1
    /\ pc_main' = IF joined + 1 < num_collectors THEN "join" ELSE "convert"
    /\ UNCHANGED <<num_collectors, nprocs, current_proc, created, pc,
                   target_proc, procs_ready_lock, procs_consumer_lock, files,
                   view, claims, fills, waited, rows, emitted, term,
                   outarg, columns, freed>>

\* run_collectors, one turn of the pthread_join loop.
run_collectors_join ==
    /\ Running /\ pc_main = "join"
    /\ pc[joined + 1] = "returned"
    /\ joined' = joined + 1
    /\ pc_main' = IF joined + 1 < num_collectors THEN "join" ELSE "convert"
    /\ UNCHANGED <<num_collectors, nprocs, current_proc, created, pc,
                   target_proc, procs_ready_lock, procs_consumer_lock, files,
                   view, claims, fills, waited, rows, emitted, term,
                   outarg, columns, freed>>

\* convert: one table line per File, process by process in list order.
RECURSIVE convert_lines(_, _)
convert_lines(fs, p) ==
    IF p > nprocs THEN <<>>
    ELSE [i \in 1..Len(fs[p]) |->
             [proc |-> p, file |-> fs[p][i],
              cells |-> convert1(fs[p][i], columns)]]
         \o convert_lines(fs, p + 1)

convert ==
    /\ Running /\ pc_main = "convert"
    /\ rows' = convert_lines(files, 1)
    /\ pc_main' = "emit"
    /\ UNCHANGED <<num_collectors, nprocs, current_proc, created, joined, pc,
                   target_proc, procs_ready_lock, procs_consumer_lock, files,
                   view, claims, fills, waited, emitted, term,
                   outarg, columns, freed>>

emit ==
    /\ Running /\ pc_main = "emit"
    /\ emitted' = TRUE
    /\ pc_main' = "delete"
    /\ UNCHANGED <<num_collectors, nprocs, current_proc, created, joined, pc,
                   target_proc, procs_ready_lock, procs_consumer_lock, files,
                   view, claims, fills, waited, rows, term,
                   outarg, columns, freed>>

\* delete: list_free of every process with its files, scols_unref_table.
delete ==
    /\ Running /\ pc_main = "delete"
    /\ freed' = list_free_procs(files, 1, nprocs)
    /\ files' = [p \in Nodes |-> <<>>]
    /\ rows' = <<>>
    /\ pc_main' = "return"
    /\ UNCHANGED <<num_collectors, nprocs, current_proc, created, joined, pc,
                   target_proc, procs_ready_lock, procs_consumer_lock, view,
                   claims, fills, waited, emitted, term, outarg, columns>>

main_return ==
    /\ Running /\ pc_main = "return"
    /\ exit(EXIT_SUCCESS, "return", MainThread)
    /\ UNCHANGED <<num_collectors, nprocs, current_proc, pc_main, created,
                   joined, pc, target_proc, procs_ready_lock,
                   procs_consumer_lock, files, view, claims, fills, waited,
                   rows, emitted,
                   outarg, columns, freed>>

\* ------------------------------------------------------------- fill_procs

fill_procs_lock_ready(w) ==
    /\ Running /\ pc[w] = "lock_ready"
    /\ procs_ready_lock = {}
    /\ procs_ready_lock' = {w}
    /\ pc' = [pc EXCEPT ![w] = "check"]
    /\ UNCHANGED <<num_collectors, nprocs, current_proc, pc_main, created,
                   joined, target_proc, procs_consumer_lock, files, view,
                   claims, fills, waited, rows, emitted, term,
                   outarg, columns, freed>>

\* if (current_proc == NULL) pthread_cond_wait(...): the wait gives the
\* mutex up and blocks, in one step.
fill_procs_check(w) ==
    /\ Running /\ pc[w] = "check"
    /\ IF current_proc = NULL
       THEN /\ pc' = [pc EXCEPT ![w] = "wait"]
            /\ procs_ready_lock' = procs_ready_lock \ {w}
            /\ waited' = [waited EXCEPT ![w] = TRUE]
       ELSE /\ pc' = [pc EXCEPT ![w] = "unlock_ready"]
            /\ UNCHANGED <<procs_ready_lock, waited>>
    /\ UNCHANGED <<num_collectors, nprocs, current_proc, pc_main, created,
                   joined, target_proc, procs_consumer_lock, files, view,
                   claims, fills, rows, emitted, term,
                   outarg, columns, freed>>

\* pthread_cond_wait may return without a broadcast (a spurious wakeup).
cond_wait_spurious(w) ==
    /\ Running /\ pc[w] = "wait"
    /\ pc' = [pc EXCEPT ![w] = "woken"]
    /\ UNCHANGED <<num_collectors, nprocs, current_proc, pc_main, created,
                   joined, target_proc, procs_ready_lock, procs_consumer_lock,
                   files, view, claims, fills, waited, rows, emitted, term,
                   outarg, columns, freed>>

\* pthread_cond_wait returns with the mutex held again.
fill_procs_wakeup(w) ==
    /\ Running /\ pc[w] = "woken"
    /\ procs_ready_lock = {}
    /\ procs_ready_lock' = {w}
    /\ pc' = [pc EXCEPT ![w] = "unlock_ready"]
    /\ UNCHANGED <<num_collectors, nprocs, current_proc, pc_main, created,
                   joined, target_proc, procs_consumer_lock, files, view,
                   claims, fills, waited, rows, emitted, term,
                   outarg, columns, freed>>

\* fill_procs going on to the claim step with procs_ready_lock still held.
fill_procs_unlock_ready_keep(w) ==
    /\ Running /\ pc[w] = "unlock_ready"
    /\ pc' = [pc EXCEPT ![w] = "lock_consumer"]
    /\ UNCHANGED <<num_collectors, nprocs, current_proc, pc_main, created,
                   joined, target_proc, procs_ready_lock, procs_consumer_lock,
                   files, view, claims, fills, waited, rows, emitted, term,
                   outarg, columns, freed>>

\* pthread_mutex_unlock(&procs_ready_lock)
fill_procs_unlock_ready(w) ==
    /\ Running /\ pc[w] = "unlock_ready"
    /\ procs_ready_lock' = procs_ready_lock \ {w}
    /\ pc' = [pc EXCEPT ![w] = "lock_consumer"]
    /\ UNCHANGED <<num_collectors, nprocs, current_proc, pc_main, created,
                   joined, target_proc, procs_consumer_lock, files, view,
                   claims, fills, waited, rows, emitted, term,
                   outarg, columns, freed>>

\* The claim step entered without waiting for procs_consumer_lock.
fill_procs_lock_consumer_racy(w) ==
    /\ Running /\ pc[w] = "lock_consumer"
    /\ procs_consumer_lock' = procs_consumer_lock \cup {w}
    /\ pc' = [pc EXCEPT ![w] = "read"]
    /\ UNCHANGED <<num_collectors, nprocs, current_proc, pc_main, created,
                   joined, target_proc, procs_ready_lock, files, view, claims,
                   fills, waited, rows, emitted, term,
                   outarg, columns, freed>>

\* pthread_mutex_lock(&procs_consumer_lock)
fill_procs_lock_consumer(w) ==
    /\ Running /\ pc[w] = "lock_consumer"
    /\ procs_consumer_lock = {}
    /\ procs_consumer_lock' = {w}
    /\ pc' = [pc EXCEPT ![w] = "read"]
    /\ UNCHANGED <<num_collectors, nprocs, current_proc, pc_main, created,
                   joined, target_proc, procs_ready_lock, files, view, claims,
                   fills, waited, rows, emitted, term,
                   outarg, columns, freed>>

\* target_proc = current_proc: the claim step returns this position.
fill_procs_read(w) ==
    /\ Running /\ pc[w] = "read"
    /\ target_proc' = [target_proc EXCEPT ![w] = current_proc]
    /\ claims' = IF current_proc \in Nodes
                 THEN [claims EXCEPT ![current_proc] = @ + 1]
                 ELSE claims
    /\ pc' = [pc EXCEPT ![w] = "advance"]
    /\ UNCHANGED <<num_collectors, nprocs, current_proc, pc_main, created,
                   joined, procs_ready_lock, procs_consumer_lock, files, view,
                   fills, waited, rows, emitted, term,
                   outarg, columns, freed>>

\* The claim step that advances the cursor without the test against procs.
fill_procs_advance_unguarded(w) ==
    /\ Running /\ pc[w] = "advance"
    /\ \E c \in {target_proc[w], current_proc} :
          IF c = NULL
          THEN /\ segv(w)
               /\ UNCHANGED <<current_proc, pc>>
          ELSE /\ current_proc' = next(c)
               /\ pc' = [pc EXCEPT ![w] = "unlock_consumer"]
               /\ UNCHANGED term
    /\ UNCHANGED <<num_collectors, nprocs, pc_main, created, joined,
                   target_proc, procs_ready_lock, procs_consumer_lock, files,
                   view, claims, fills, waited, rows, emitted,
                   outarg, columns, freed>>

\* if (current_proc != procs) current_proc = current_proc->next. The cursor
\* is a plain global that main writes under the other mutex, so the value c
\* compared and dereferenced here is the one line 418 loaded or one loaded
\* again; NULL->next is a SIGSEGV.
fill_procs_advance(w) ==
    /\ Running /\ pc[w] = "advance"
    /\ \E c \in {target_proc[w], current_proc} :
          IF c = NULL
          THEN /\ segv(w)
               /\ UNCHANGED <<current_proc, pc>>
          ELSE /\ current_proc' = IF c # procs THEN next(c) ELSE current_proc
               /\ pc' = [pc EXCEPT ![w] = "unlock_consumer"]
               /\ UNCHANGED term
    /\ UNCHANGED <<num_collectors, nprocs, pc_main, created, joined,
                   target_proc, procs_ready_lock, procs_consumer_lock, files,
                   view, claims, fills, waited, rows, emitted,
                   outarg, columns, freed>>

fill_procs_unlock_consumer(w) ==
    /\ Running /\ pc[w] = "unlock_consumer"
    /\ procs_consumer_lock' = procs_consumer_lock \ {w}
    /\ pc' = [pc EXCEPT ![w] = "test"]
    /\ UNCHANGED <<num_collectors, nprocs, current_proc, pc_main, created,
                   joined, target_proc, procs_ready_lock, files, view, claims,
                   fills, waited, rows, emitted, term,
                   outarg, columns, freed>>

\* The end test made on the cursor in place of the claimed position.
fill_procs_test_cursor(w) ==
    /\ Running /\ pc[w] = "test"
    /\ pc' = [pc EXCEPT ![w] = IF current_proc = procs THEN "returned"
                                ELSE "fill"]
    /\ UNCHANGED <<num_collectors, nprocs, current_proc, pc_main, created,
                   joined, target_proc, procs_ready_lock, procs_consumer_lock,
                   files, view, claims, fills, waited, rows, emitted, term,
                   outarg, columns, freed>>

\* if (target_proc == procs) break;
fill_procs_test(w) ==
    /\ Running /\ pc[w] = "test"
    /\ pc' = [pc EXCEPT ![w] = IF target_proc[w] = procs THEN "returned"
                                ELSE "fill"]
    /\ UNCHANGED <<num_collectors, nprocs, current_proc, pc_main, created,
                   joined, target_proc, procs_ready_lock, procs_consumer_lock,
                   files, view, claims, fills, waited, rows, emitted, term,
                   outarg, columns, freed>>

\* fill_proc(list_entry(target_proc, struct proc, procs)) with /proc/<pid>
\* answering as some view of V. list_entry(NULL) is no struct proc:
\* INIT_LIST_HEAD(&proc->files) writes near address 0, a SIGSEGV.
enrich(w, V) ==
    /\ Running /\ pc[w] = "fill"
    /\ IF target_proc[w] = NULL
       THEN /\ segv(w)
            /\ UNCHANGED <<pc, files, view, fills>>
       ELSE \E v \in V :
              LET p == target_proc[w]
                  r == fill_proc(v)
              IN /\ files' = [files EXCEPT ![p] = r.files]
                 /\ view' = [view EXCEPT ![p] = v]
                 /\ fills' = [fills EXCEPT ![p] = @ + 1]
                 /\ IF r.fatal
                    THEN /\ exit(EXIT_FAILURE, "command", w)
                         /\ UNCHANGED pc
                    ELSE /\ pc' = [pc EXCEPT ![w] = "lock_consumer"]
                         /\ UNCHANGED term
    /\ UNCHANGED <<num_collectors, nprocs, current_proc, pc_main, created,
                   joined, target_proc, procs_ready_lock, procs_consumer_lock,
                   claims, waited, rows, emitted,
                   outarg, columns, freed>>

fill_procs_fill(w) == enrich(w, SchedViews)

\* ---------------------------------------------------------- specifications

MainNext ==
    \/ main_setup
    \/ collect
    \/ run_collectors_create
    \/ run_collectors_lock
    \/ run_collectors_publish
    \/ run_collectors_unlock
    \/ run_collectors_broadcast
    \/ run_collectors_join
    \/ convert
    \/ emit
    \/ delete
    \/ main_return

CollectorNext(w) ==
    \/ fill_procs_lock_ready(w)
    \/ fill_procs_check(w)
    \/ fill_procs_wakeup(w)
    \/ fill_procs_unlock_ready(w)
    \/ fill_procs_lock_consumer(w)
    \/ fill_procs_read(w)
    \/ fill_procs_advance(w)
    \/ fill_procs_unlock_consumer(w)
    \/ fill_procs_test(w)
    \/ fill_procs_fill(w)

Next ==
    \/ MainNext
    \/ \E w \in Collectors : CollectorNext(w)
    \/ \E w \in Collectors : cond_wait_spurious(w)

Spec == Init /\ [][Next]_vars

\* Every thread that can take a step eventually takes one. A spurious
\* wakeup may happen and is never owed.
FairSpec ==
    /\ Spec
    /\ WF_vars(MainNext)
    /\ \A w \in Collectors : WF_vars(CollectorNext(w))

\* The enrichment of one process on its own: one collector has claimed
\* node t of a list of two and is about to call fill_proc; the nodes before
\* t are enriched already.
InitFill ==
    /\ num_collectors = 1
    /\ nprocs = 2
    /\ \E t \in 1..2 :
          /\ target_proc = [w \in Collectors |-> IF w = 1 THEN t ELSE NULL]
          /\ current_proc = next(t)
          /\ files = [p \in Nodes |->
                        IF p < t THEN fill_proc(Alive).files ELSE <<>>]
          /\ view = [p \in Nodes |-> IF p < t THEN Alive ELSE Gone]
          /\ claims = [p \in Nodes |-> IF p <= t THEN 1 ELSE 0]
          /\ fills = [p \in Nodes |-> IF p < t THEN 1 ELSE 0]
    /\ pc_main = "join"
    /\ outarg = <<>>
    /\ columns = DefaultColumns
    /\ freed = <<>>
    /\ created = 1
    /\ joined = 0
    /\ pc = [w \in Collectors |-> IF w = 1 THEN "fill" ELSE "none"]
    /\ procs_ready_lock = {}
    /\ procs_consumer_lock = {}
    /\ waited = [w \in Collectors |-> FALSE]
    /\ rows = <<>>
    /\ emitted = FALSE
    /\ term = [status |-> "running", code |-> EXIT_SUCCESS, cause |-> "",
               by |-> MainThread]

\* Every view the enrichment model draws from.
EnrichViews == FillViews \cup TypeViews

NextFill == \E w \in Collectors : enrich(w, EnrichViews)

SpecFill == InitFill /\ [][NextFill]_vars

\* Rendering and cleanup on their own: the collector has returned and been
\* joined, every node of the list is enriched, main is about to call
\* convert with the columns some -o list selected.
BlockDevice ==
    View(TRUE, OpenDir(ClassicalNames, AllResolved), ClosedDir,
         FdDir({0, 1}, (0 :> Resolved(S_IFBLK + 432))
                       @@ (1 :> Resolved(S_IFSOCK + 511))))
Empty == View(TRUE, ClosedDir, ClosedDir, ClosedDir)
RenderViews == {Alive, Restricted, BlockDevice, Empty}

LowerCase(name) == [j \in 1..Len(name) |-> tolower(name[j])]
\* One column name in either case, or two names.
RenderArgs ==
    {<<infos[i]>> : i \in 1..Len(infos)}
    \cup {<<LowerCase(infos[i])>> : i \in 1..Len(infos)}
    \cup {<<infos[i], LowerCase(infos[Len(infos) + 1 - i])>> :
             i \in 1..Len(infos)}
RenderOutArgs == {<<>>} \cup {<<l>> : l \in RenderArgs}

InitRender ==
    /\ num_collectors = 1
    /\ nprocs = MaxProcs
    /\ current_proc = procs
    /\ pc_main = "convert"
    /\ outarg \in RenderOutArgs
    /\ columns = IF outarg = <<>> THEN DefaultColumns
                 ELSE string_add_to_idarray(outarg[1], DefaultColumns,
                                            ColumnsSize).ary
    /\ freed = <<>>
    /\ created = 1
    /\ joined = 1
    /\ pc = [w \in Collectors |-> IF w = 1 THEN "returned" ELSE "none"]
    /\ target_proc = [w \in Collectors |-> IF w = 1 THEN procs ELSE NULL]
    /\ procs_ready_lock = {}
    /\ procs_consumer_lock = {}
    /\ view \in [Nodes -> RenderViews]
    /\ files = [p \in Nodes |-> fill_proc(view[p]).files]
    /\ claims = [p \in Nodes |-> 1]
    /\ fills = [p \in Nodes |-> 1]
    /\ waited = [w \in Collectors |-> FALSE]
    /\ rows = <<>>
    /\ emitted = FALSE
    /\ term = [status |-> "running", code |-> EXIT_SUCCESS, cause |-> "",
               by |-> MainThread]

NextRender == convert \/ emit \/ delete \/ main_return

SpecRender == InitRender /\ [][NextRender]_vars

\* ----------------------------------------------------------------- claims

\* Positions a thread is at once pthread_cond_wait or the readiness check
\* is behind it and the claim step has begun.
ClaimSteps == {"read", "advance", "unlock_consumer", "test", "fill", "returned"}
\* main has passed the join barrier.
Joined == pc_main \in {"convert", "emit", "delete", "return"}
\* main has published the cursor and broadcast procs_ready.
Broadcast == pc_main = "join" \/ Joined
\* Nodes whose enrichment ran to its end and whose files are still there.
Enriched(p) == fills[p] >= 1 /\ view[p].command /\ pc_main # "return"

\* C1: no list position is returned by two claim steps, and fill_proc never
\* runs twice on one process, whatever the pool size and interleaving.
C1_ClaimedAtMostOnce ==
    \A p \in Nodes : claims[p] <= 1 /\ fills[p] <= 1

C1_Witness ==
    \E w1 \in Collectors, w2 \in Collectors :
        /\ w1 # w2
        /\ pc[w1] = "fill" /\ pc[w2] = "fill"
        /\ target_proc[w1] \in Nodes /\ target_proc[w2] \in Nodes

\* C2: once run_collectors has returned, the processes claimed and enriched
\* are exactly the nodes 1..nprocs of the list, for every pool size.
C2_AllClaimedAtJoin ==
    Joined =>
        /\ {p \in Nodes : claims[p] >= 1} = 1..nprocs
        /\ {p \in Nodes : fills[p] >= 1} = 1..nprocs

C2_Witness ==
    /\ pc_main = "convert"
    /\ num_collectors >= 2
    /\ nprocs >= 2

\* C3 (the claim as stated): a thread that entered pthread_cond_wait
\* executes no claim step before main has set the cursor and broadcast.
C3_WaiterClaimsAfterBroadcast ==
    \A w \in Collectors :
        (waited[w] /\ pc[w] \in ClaimSteps) =>
            (current_proc # NULL /\ Broadcast)

\* C4 (the claim as stated): every collector returns and main passes the
\* join barrier, unless the program ended on the -o list, in collect, in
\* pthread_create or in a fill_proc that did not return.
C4_EventuallyJoined ==
    <>(\/ Joined
       \/ /\ term.status = "exited"
          /\ term.cause \in {"column", "opendir", "create", "command"})

\* C5 (the claim as stated): fill_proc never ends the run because the
\* process it inspects is missing.
C5_EnrichmentNeverFatal ==
    ~(term.status = "exited" /\ term.cause = "command")

\* C6: when the command name of a claimed process cannot be read, the
\* program has exited with a failure status from the collector that
\* claimed it, with no File of that process collected, no line in the
\* table and nothing printed.
C6_CommandFailureAborts ==
    \A p \in Nodes :
        (fills[p] >= 1 /\ ~view[p].command) =>
            /\ term.status = "exited"
            /\ term.code # EXIT_SUCCESS
            /\ term.by \in Collectors
            /\ target_proc[term.by] = p
            /\ files[p] = <<>>
            /\ rows = <<>>
            /\ ~emitted

C6_Witness ==
    \E p \in Nodes, q \in Nodes :
        /\ fills[p] = 1 /\ view[p] = NoCommand
        /\ term.status = "exited"
        /\ files[q] # <<>>

\* What the claims say fill_proc leaves in proc->files, from the view alone.
Ok(o) == o.fstatat = 0 /\ o.readlinkat >= 0
Sentinels(dirp, names) ==
    IF dirp.open
    THEN {0 - a : a \in {x \in DOMAIN names : Ok(dirp.ent[names[x]])}}
    ELSE {}
FixedResolved(v) ==
    Sentinels(v.proc, classical_assoc_names)
    \cup Sentinels(v.ns, namespace_assoc_names)
FdUniverse == {FdPool[i] : i \in DOMAIN FdPool}
FdListed(v) ==
    {n \in FdUniverse : \E i \in 1..Len(v.fd.list) : v.fd.list[i] = FdName(n)}
FdResolved(v) ==
    IF v.fd.open
    THEN {n \in FdListed(v) : Ok(v.fd.ent[FdName(n)])}
    ELSE {}
Associations(fs) == {fs[i].association : i \in 1..Len(fs)}

\* C7: a descriptor directory that cannot be opened leaves exactly the
\* fixed and namespace Files that resolved; a failed fstatat or readlinkat
\* omits that one File and no other; the enrichment changes no other
\* process's files and not the way the program ends.
C7_SoftFailures ==
    /\ [](\A p \in Nodes :
            Enriched(p) =>
              /\ Associations(files[p])
                   = FixedResolved(view[p]) \cup FdResolved(view[p])
              /\ Len(files[p])
                   = Cardinality(FixedResolved(view[p]))
                     + Cardinality(FdResolved(view[p]))
              /\ ~view[p].fd.open =>
                   \A i \in 1..Len(files[p]) : files[p][i].association < 0)
    /\ [][\A w \in Collectors :
            (pc[w] = "fill" /\ pc'[w] = "lock_consumer") =>
              /\ \A q \in Nodes \ {target_proc[w]} : files'[q] = files[q]
              /\ term' = term]_vars

C7_Witness ==
    \E p \in Nodes, q \in Nodes :
        /\ p # q
        /\ Enriched(p) /\ ~view[p].fd.open
        /\ files[p] # <<>>
        /\ Cardinality(FixedResolved(view[p])) < 13
        /\ files[q] # <<>>
        /\ term.status = "running"

\* The discovery order of the claim: cwd, exe, root, then the namespaces.
SentinelOrder ==
    <<0 - ASSOC_CWD, 0 - ASSOC_EXE, 0 - ASSOC_ROOT, 0 - ASSOC_NS_CGROUP,
      0 - ASSOC_NS_IPC, 0 - ASSOC_NS_MNT, 0 - ASSOC_NS_NET, 0 - ASSOC_NS_PID,
      0 - ASSOC_NS_PID4C, 0 - ASSOC_NS_TIME, 0 - ASSOC_NS_TIME4C,
      0 - ASSOC_NS_USER, 0 - ASSOC_NS_UTS>>
IndexIn(seq, x) == CHOOSE i \in 1..Len(seq) : seq[i] = x
Rank(v, f) ==
    IF f.association < 0
    THEN IndexIn(SentinelOrder, f.association)
    ELSE Len(SentinelOrder) + IndexIn(v.fd.list, FdName(f.association))

\* C8: proc->files is in discovery order: cwd, exe, root, the namespaces
\* cgroup .. uts, then the descriptors in directory-scan order.
C8_DiscoveryOrder ==
    \A p \in Nodes :
        Enriched(p) =>
            \A i \in 1..Len(files[p]), j \in 1..Len(files[p]) :
                i < j => Rank(view[p], files[p][i]) < Rank(view[p], files[p][j])

C8_Witness ==
    \E p \in Nodes :
        /\ Enriched(p)
        /\ {0 - ASSOC_ROOT, 0 - ASSOC_NS_CGROUP, 0 - ASSOC_NS_UTS}
             \subseteq Associations(files[p])
        /\ Cardinality({a \in Associations(files[p]) : a >= 0}) >= 2
        /\ 0 - ASSOC_EXE \notin Associations(files[p])

\* C9: the associations of one process are pairwise distinct: every fixed
\* or namespace File holds the negated enum value, every descriptor File
\* its non-negative number.
C9_DistinctAssociations ==
    \A p \in Nodes :
        Enriched(p) =>
            /\ \A i \in 1..Len(files[p]), j \in 1..Len(files[p]) :
                 i # j => files[p][i].association # files[p][j].association
            /\ Cardinality({i \in 1..Len(files[p]) : files[p][i].association < 0})
                 = Cardinality(FixedResolved(view[p]))
            /\ Cardinality({i \in 1..Len(files[p]) : files[p][i].association >= 0})
                 = Cardinality(FdResolved(view[p]))

C9_Witness ==
    \E p \in Nodes :
        /\ Enriched(p)
        /\ \E w \in Collectors : pc[w] = "lock_consumer" /\ target_proc[w] = p
        /\ {0 - ASSOC_CWD, ASSOC_CWD, 0} \subseteq Associations(files[p])

\* The file-type bits of a mode as a number 0..15 (S_IFMT >> 12).
TypeBits(mode) == (mode \div 4096) % 16
KindOf(mode) ==
    IF TypeBits(mode) = 8 THEN "regular"
    ELSE IF TypeBits(mode) = 2 THEN "cdev"
    ELSE IF TypeBits(mode) = 6 THEN "bdev"
    ELSE "file"

\* C10: every stat result gets a kind: S_IFREG the regular one, S_IFCHR the
\* character-device one, S_IFBLK the block-device one, anything else the
\* generic one.
C10_ClassifyTotal ==
    \A p \in Nodes :
        Enriched(p) =>
            /\ Len(files[p]) >= Cardinality(FdResolved(view[p]))
            /\ \A i \in 1..Len(files[p]) :
                 files[p][i].class = KindOf(files[p][i].stat.st_mode)

C10_Witness ==
    \E p \in Nodes :
        /\ Enriched(p)
        /\ \E i \in 1..Len(files[p]) :
             /\ IFMT(files[p][i].stat.st_mode) = S_IFSOCK
             /\ files[p][i].class = "file"

\* The kind chain of a class as the claims describe it: the concrete kind,
\* then the generic kind.
KindChain(class) == IF class = "file" THEN <<"file">> ELSE <<class, "file">>
CellOf(r, i) == rows[r].cells[i]

\* C11: for every File and every selected column, fill_column calls the
\* hooks along the kind chain from the File's kind, stops at the first
\* kind that supplies a value, and some kind always supplies one.
C11_DispatchTotal ==
    \A r \in 1..Len(rows) :
        /\ Len(rows[r].cells) = Len(columns)
        /\ \A i \in 1..Len(columns) :
             LET cell == CellOf(r, i)
                 chain == KindChain(rows[r].file.class)
                 n == Len(cell.invoked)
             IN /\ columns[i] \in AllColumns
                /\ cell.by # NoClass
                /\ n >= 1 /\ n <= Len(chain)
                /\ cell.invoked = SubSeq(chain, 1, n)
                /\ cell.invoked[n] = cell.by
                /\ columns[i] \in Classes[cell.by].answers
                /\ \A k \in 1..(n - 1) :
                     columns[i] \notin Classes[cell.invoked[k]].answers

C11_Witness ==
    \E r \in 1..Len(rows), i \in 1..Len(columns), j \in 1..Len(columns) :
        /\ rows[r].file.class = "bdev"
        /\ columns[i] = COL_DEVICE /\ CellOf(r, i).by = "bdev"
        /\ columns[j] = COL_INODE /\ CellOf(r, j).invoked = <<"bdev", "file">>

\* How often a call occurs in a cleanup log, and where.
Count(log, ev) == Cardinality({k \in 1..Len(log) : log[k] = ev})
Pos(log, ev) == CHOOSE k \in 1..Len(log) : log[k] = ev
\* The number of Files of the first n processes.
RECURSIVE TotalFiles(_, _)
TotalFiles(fs, n) == IF n = 0 THEN 0 ELSE Len(fs[n]) + TotalFiles(fs, n - 1)
Hooked(class) ==
    {c \in {KindChain(class)[k] : k \in 1..Len(KindChain(class))} :
        Classes[c].free_content}
\* The number of release hooks owed to the Files of the first n processes.
RECURSIVE HooksOf(_, _)
HooksOf(fs, i) ==
    IF i = 0 THEN 0
    ELSE Cardinality(Hooked(fs[i].class)) + HooksOf(fs, i - 1)
RECURSIVE TotalHooks(_, _)
TotalHooks(fs, n) ==
    IF n = 0 THEN 0 ELSE HooksOf(fs[n], Len(fs[n])) + TotalHooks(fs, n - 1)

\* C12: the cleanup frees every File of every process once, after running
\* once the release hook of each kind of its chain that has one, concrete
\* kind first; it frees a process once, after all its Files; and it runs
\* only after the table has been built and printed.
C12_ReleasedOnce ==
    /\ [](freed # <<>> => (emitted /\ pc_main = "return"))
    /\ [][(pc_main = "delete" /\ pc_main' = "return") =>
            /\ emitted /\ Len(rows) = TotalFiles(files, nprocs)
            /\ Len(freed') =
                 nprocs + TotalFiles(files, nprocs) + TotalHooks(files, nprocs)
            /\ \A p \in 1..nprocs :
                 /\ Count(freed', FreeProc(p)) = 1
                 /\ \A i \in 1..Len(files[p]) :
                      /\ Count(freed', FreeFile(p, i)) = 1
                      /\ Pos(freed', FreeFile(p, i)) < Pos(freed', FreeProc(p))
                      /\ \A c \in DOMAIN Classes :
                           IF c \in Hooked(files[p][i].class)
                           THEN /\ Count(freed', HookCall(p, i, c)) = 1
                                /\ Pos(freed', HookCall(p, i, c))
                                     < Pos(freed', FreeFile(p, i))
                           ELSE Count(freed', HookCall(p, i, c)) = 0
                      /\ \A c \in Hooked(files[p][i].class) :
                           c # files[p][i].class /\
                           files[p][i].class \in Hooked(files[p][i].class) =>
                             Pos(freed', HookCall(p, i, files[p][i].class))
                               < Pos(freed', HookCall(p, i, c))]_vars

C12_Witness ==
    /\ pc_main = "return"
    /\ \E k \in 1..Len(freed), j \in 1..Len(freed) :
         /\ freed[k].op = "free_content" /\ freed[k].proc = 1
         /\ freed[j] = FreeProc(2) /\ k < j
    /\ \E k \in 1..Len(freed) : freed[k].class = "cdev"
    /\ \E p \in Nodes : view[p] = BlockDevice

\* A name of the -o list is recognized when it is a name of infos[] in
\* any case.
Recognized(name) ==
    \E i \in 1..Len(infos) : LowerCase(name) = LowerCase(infos[i])
\* The -o arguments that hold an unrecognized name.
UnknownOutArgs ==
    {a \in OutArgs \cup RenderOutArgs :
        a # <<>> /\ \E i \in 1..Len(a[1]) : ~Recognized(a[1][i])}
UnknownColumn == outarg \in UnknownOutArgs

\* C13: with an unrecognized name in the -o list the program never gets
\* past its set-up: it exits there with a failure status, with no process
\* enumerated, no collector created, no table line made, nothing printed.
C13_UnknownColumnFatal ==
    UnknownColumn =>
        /\ pc_main = "setup"
        /\ nprocs = 0 /\ created = 0
        /\ \A w \in Collectors : pc[w] = "none"
        /\ rows = <<>> /\ ~emitted
        /\ \/ term.status = "running"
           \/ /\ term.status = "exited"
              /\ term.code # EXIT_SUCCESS
              /\ term.cause = "column"
              /\ term.by = MainThread

C13_Witness ==
    /\ outarg = <<ArgTypeBogus>>
    /\ term.status = "exited" /\ term.cause = "column"

\* Every collector thread that was created has returned from fill_procs.
AllReturned ==
    /\ created = num_collectors /\ joined = num_collectors
    /\ \A w \in Collectors :
         pc[w] = IF w <= num_collectors THEN "returned" ELSE "none"

\* C14: convert reads the file lists only when every collector has
\* returned and been joined, and a process's file list is written once,
\* by the one collector that claimed the process.
C14_ReadAfterJoin ==
    /\ [](Joined => AllReturned)
    /\ [][(pc_main = "convert" /\ pc_main' # "convert") => AllReturned]_vars
    /\ [][\A p \in Nodes :
            (files'[p] # files[p] \/ fills'[p] # fills[p]) =>
              \/ pc_main = "delete" /\ pc_main' = "return"
              \/ /\ fills[p] = 0 /\ fills'[p] = 1
                 /\ ~Joined
                 /\ Cardinality({w \in Collectors :
                        pc[w] = "fill" /\ target_proc[w] = p}) = 1]_vars

C14_Witness ==
    /\ pc_main = "emit"
    /\ num_collectors >= 2 /\ nprocs >= 2
    /\ \E i \in 1..Len(rows), j \in 1..Len(rows) :
         rows[i].proc = 1 /\ rows[j].proc = 2

\* C15 (the claim as stated): processes are claimed in list order, so the
\* claimed nodes are always the first ones of the list, and the cursor
\* moves only from a node to the next one, in the claim step that returned
\* that node.
C15_ClaimOrder ==
    /\ [](\A p \in Nodes, q \in Nodes :
            (p < q /\ claims[q] >= 1) => claims[p] >= 1)
    /\ [][current_proc' # current_proc =>
            \/ current_proc = NULL /\ pc_main = "publish"
            \/ /\ current_proc \in 1..nprocs
               /\ current_proc' = next(current_proc)
               /\ \E w \in Collectors :
                    /\ pc[w] = "advance" /\ pc'[w] # "advance"
                    /\ target_proc[w] = current_proc]_vars

\* C16: a claim step that finds the cursor at the list head returns the
\* head, claims no process, leaves the cursor where it is and makes the
\* collector return; a cursor that has reached the head stays there.
C16_EndIsAbsorbing ==
    /\ [](\A w \in Collectors :
            (target_proc[w] = procs
             /\ pc[w] \in {"advance", "unlock_consumer", "test", "returned"})
              => current_proc = procs)
    /\ [][current_proc = procs => current_proc' = procs]_vars
    /\ [][\A w \in Collectors :
            (current_proc = procs /\ pc[w] = "read" /\ pc'[w] # "read") =>
              /\ target_proc'[w] = procs
              /\ claims' = claims]_vars
    /\ [][\A w \in Collectors :
            (target_proc[w] = procs /\ pc[w] = "test" /\ pc'[w] # "test") =>
              /\ pc'[w] = "returned"
              /\ fills' = fills /\ files' = files]_vars

C16_Witness ==
    /\ nprocs >= 1
    /\ current_proc = procs
    /\ \E w1 \in Collectors, w2 \in Collectors :
         /\ w1 # w2
         /\ pc[w1] = "returned" /\ target_proc[w1] = procs
         /\ pc[w2] = "returned" /\ target_proc[w2] = procs

\* The threads of the program: main and the collectors.
Threads == {MainThread} \cup Collectors
\* Thread t is about to call pthread_mutex_lock on the mutex, or is inside
\* pthread_cond_wait taking it again.
WantsReady(t) ==
    IF t = MainThread THEN pc_main = "lock_ready"
    ELSE pc[t] \in {"lock_ready", "woken"}
WantsConsumer(t) == t # MainThread /\ pc[t] = "lock_consumer"
\* Thread t is between a lock and its unlock and waits for nothing there.
InsideReady(t) ==
    IF t = MainThread THEN pc_main \in {"publish", "unlock_ready"}
    ELSE pc[t] \in {"check", "unlock_ready"}
InsideConsumer(t) ==
    t # MainThread /\ pc[t] \in {"read", "advance", "unlock_consumer"}

\* C17: no thread holds procs_ready_lock and procs_consumer_lock together,
\* no thread locks a mutex it holds, and whoever holds a mutex is on its
\* way to the unlock without waiting for the other mutex; while the
\* program runs some thread can take a step without any spurious wakeup.
C17_LocksNeverNested ==
    /\ Cardinality(procs_ready_lock) <= 1
    /\ Cardinality(procs_consumer_lock) <= 1
    /\ \A t \in Threads :
         /\ ~(t \in procs_ready_lock /\ t \in procs_consumer_lock)
         /\ WantsReady(t) => t \notin procs_ready_lock
         /\ WantsConsumer(t) =>
              (t \notin procs_consumer_lock /\ t \notin procs_ready_lock)
         /\ t \in procs_ready_lock => (InsideReady(t) /\ ~InsideConsumer(t))
         /\ t \in procs_consumer_lock => (InsideConsumer(t) /\ ~InsideReady(t))
    /\ Running => ENABLED (MainNext \/ \E w \in Collectors : CollectorNext(w))

C17_Witness ==
    /\ term.status = "running"
    /\ \E t \in Threads, u \in Collectors, v \in Collectors :
         /\ t # u /\ u # v /\ t # v
         /\ t \in procs_ready_lock
         /\ u \in procs_consumer_lock
         /\ WantsConsumer(v)

\* C18: while the enrichment of a claimed process has not returned, its
\* collector stays in fill_proc, main stays in the join loop and no table
\* line is made or printed, whatever the other collectors have done; the
\* collector leaves fill_proc only by fill_proc returning.
C18_StuckWorkerStallsJoin ==
    /\ [](\A w \in Collectors :
            pc[w] = "fill" =>
              /\ pc_main \in {"create", "lock_ready", "publish",
                               "unlock_ready", "broadcast", "join"}
              /\ joined < w
              /\ rows = <<>> /\ ~emitted /\ freed = <<>>)
    /\ [][\A w \in Collectors :
            (pc[w] = "fill" /\ pc'[w] # "fill") =>
              /\ target_proc[w] \in Nodes
              /\ fills'[target_proc[w]] = fills[target_proc[w]] + 1
              /\ pc_main' = pc_main /\ joined' = joined]_vars

C18_Witness ==
    /\ term.status = "running"
    /\ pc_main = "join" /\ joined = 1
    /\ pc[1] = "returned" /\ pc[2] = "fill"
    /\ target_proc[2] \in Nodes

\* C19 (the claim as stated): a collector that is in the claim step finds
\* the cursor set, and the position its claim step returns is a node or
\* the list head, never NULL.
C19_CursorSetAtClaim ==
    \A w \in Collectors :
        /\ pc[w] \in {"read", "advance"} => current_proc # NULL
        /\ pc[w] \in {"advance", "unlock_consumer", "test", "fill"} =>
             target_proc[w] \in {procs} \cup (1..nprocs)

\* Thread t is at an access to the cursor holding procs_ready_lock only:
\* the read of line 403 or, in main, the write of line 201.
ReadyRead(t) ==
    /\ t # MainThread /\ pc[t] = "check"
    /\ t \in procs_ready_lock /\ t \notin procs_consumer_lock
ReadyWrite(t) ==
    /\ t = MainThread /\ pc_main = "publish"
    /\ t \in procs_ready_lock /\ t \notin procs_consumer_lock
\* Thread t is at an access to the cursor holding procs_consumer_lock only:
\* the read of line 418 or the advance of line 421 (a write when the
\* cursor is at a node).
ConsumerRead(t) ==
    /\ t # MainThread /\ pc[t] = "read"
    /\ t \in procs_consumer_lock /\ t \notin procs_ready_lock
ConsumerWrite(t) ==
    /\ t # MainThread /\ pc[t] = "advance"
    /\ current_proc \in 1..nprocs
    /\ t \in procs_consumer_lock /\ t \notin procs_ready_lock

\* C20 (the claim as stated): with two or more collectors, no thread is at
\* an access to the cursor under procs_ready_lock alone while another is
\* at a conflicting access (one of the two a write) of the claim step under
\* procs_consumer_lock alone.
C20_CursorAccessesOrdered ==
    num_collectors >= 2 =>
        ~(\E t \in Threads, u \in Threads :
            /\ t # u
            /\ \/ ReadyRead(t) /\ ConsumerWrite(u)
               \/ ReadyWrite(t) /\ (ConsumerRead(u) \/ ConsumerWrite(u)))

====
